---- MODULE Spec2Model ----
(***************************************************************************)
(* Token lifecycle of the Saxo-live scripts: the authenticated dispatcher  *)
(* of opt/saxo_client.py, the polling bot of opt/bot-token-dennik.py, and  *)
(* the authorization-code flows of opt/QQQ.py and api/get_saxo_token.py.   *)
(*                                                                         *)
(* Python dicts are functions whose DOMAIN is the set of keys present, so  *)
(* that `"refresh_token" not in refreshed` is a test on DOMAIN.  A token   *)
(* file is a sequence of length 0 (no file) or 1 (the stored JSON object). *)
(* Every blocking network call is one action whose outcome is chosen by    *)
(* the remote peer.  Two further scenarios look closer at what the calls   *)
(* above treat as one step: two threads calling get_valid_token of         *)
(* saxo_client in one process, and the save, load and invalidate functions *)
(* acting on a token file one system call at a time.                       *)
(***************************************************************************)
EXTENDS Integers, Sequences, FiniteSets, TLC

VARIABLES
    prog,          \* which scenario runs: "ibkr" (QQQ.py + saxo_client.py on ~/.ibkr_token.json), "bot", "gst",
                   \* "threads" (two callers of saxo_client.get_valid_token in one process),
                   \* "store" (the save, load and invalidate functions on a token file, step by step)
    clock,         \* int(time.time())
    issued,        \* number of token sets the token endpoint has issued so far
    tokenFile,     \* ~/.ibkr_token.json
    sc_pc,         \* saxo_client._request: position of the call
    sc_retry,      \* saxo_client._request: the retry argument of the running invocation
    sc_params,     \* saxo_client._request: whether params was given
    sc_url,        \* saxo_client._request: number of query strings appended to url
    sc_tok,        \* saxo_client.get_valid_token: tok
    sc_token_obj,  \* saxo_client._request: token_obj
    sc_now,        \* saxo_client.get_valid_token: now
    rf_caller,     \* saxo_client._refresh_token: who called it
    rf_tok,        \* saxo_client._refresh_token: refresh_tok
    rf_attempt,    \* saxo_client._refresh_token: attempt
    rf_tries,      \* requests sent to the token endpoint by the running/last _refresh_token
    rf_sleeps,     \* durations slept by the running/last _refresh_token
    rf_last,       \* outcome of the last request to the token endpoint
    sc_log,        \* API attempts and successful refreshes of the running/last call, in order
    sc_nTok,       \* requests sent to the token endpoint by the running/last call
    sc_file0,      \* tokenFile when the running/last call began
    sc_err,        \* the error the last call surfaced ("" when none)
    q_pc,          \* QQQ.main: position of the main thread
    q_waited,      \* QQQ.main: waited
    httpd_code,    \* QQQ.main: httpd.code
    httpd_event,   \* QQQ.main: httpd.event is set
    httpd_serving, \* QQQ.main: the serve_forever thread is handling requests
    httpd_bound,   \* QQQ.main: the listening socket of httpd is open
    q_nReq,        \* requests the QQQ listener has handled in this run
    q_last,        \* the last request the QQQ listener handled, with its response status
    q_code,        \* QQQ.exchange_code_for_token: code
    q_tok,         \* QQQ.get_valid_token: tok
    q_now,         \* QQQ.get_valid_token: now
    q_nExch,       \* requests exchange_code_for_token of QQQ.py has sent in this run
    botFile,       \* bot-token-dennik: TOKEN_FILE
    b_pc,          \* bot-token-dennik.example_api_call: position of the call
    b_second,      \* example_api_call: inside the 401 branch (lines 145-149)
    b_token_data,  \* bot-token-dennik.get_valid_token: token_data
    b_rtSent,      \* obtain_new_access: payload['refresh_token'] of the last request
    b_log,         \* API attempts and successful refreshes of the running/last call, in order
    b_err,         \* the error the last call surfaced ("" when none)
    g_pc,          \* get_saxo_token.main: position
    g_httpd_code,  \* get_saxo_token.start_local_server: httpd.code
    g_bound,       \* get_saxo_token.start_local_server: the listening socket is open
    g_nReq,        \* requests the get_saxo_token listener has handled
    g_last,        \* the last request that listener handled, with its response status
    g_code,        \* get_saxo_token.main: auth_code
    g_env,         \* get_saxo_token.persist_tokens: the token keys of .env
    g_nExch,       \* requests exchange_code_for_token of get_saxo_token.py has sent in this run
    t_pc,          \* per calling thread: position in saxo_client.get_valid_token
    t_tok,         \* per calling thread: saxo_client.get_valid_token: tok
    w_path,        \* which TOKEN_FILE the store scenario is about: "ibkr" (~/.ibkr_token.json) or "bot"
    w_umask,       \* the umask of the process that saves
    w_final,       \* the file at TOKEN_FILE: <<>> or <<[data, mode]>>
    w_tmp,         \* the file at TOKEN_FILE.with_suffix(".tmp")
    w_who,         \* the script whose save function is running
    w_pc,          \* position inside the running save
    w_new,         \* number of the record being (or last) saved
    w_old,         \* the file at TOKEN_FILE when the running save began
    w_last         \* the last load or invalidate: what it found and what it returned

-----------------------------------------------------------------------------
(* Bounds of the model *)
MaxClock == 30
MaxIssued == 3
MaxRequests == 2
MaxSaves == 2

(* Program constants *)
SafetyMargin == 30
Retries == 2
Backoff == 1
BotMargin == 300
ConfigRT == 0

TickSteps == {15}
Lifetimes == {30, 45}
BotLifetimes == {15, 315}
LifetimeOpts == {<<>>} \cup {<<l>> : l \in Lifetimes}
BotLifetimeOpts == {<<>>} \cup {<<l>> : l \in BotLifetimes}
ApiStatuses == {200, 401, 403, 500}
(* What a request to the token endpoint can fail with: an HTTP status, or  *)
(* NetError for an exception that is no HTTPError.                         *)
NetError == 0
NoStatus == -1
RefreshErrors == {400, 500, NetError}
Programs == {"ibkr", "bot", "gst", "threads", "store"}
Threads == {1, 2}
Writers == {"saxo_client", "QQQ", "bot"}

(* Query parameters of a request to a callback listener.  NoParam is a     *)
(* parameter that is missing (or blank: parse_qs drops blank values).      *)
(* "good" is the state value of the running authorization attempt, which   *)
(* only the genuine redirect carries; "genuine" is the code the            *)
(* authorization server issued, "evil" a code supplied by someone else.    *)
NoParam == "None"
Requests ==
    { [path |-> "/callback", code |-> "genuine", state |-> "good", status |-> 0],
      [path |-> "/callback", code |-> NoParam,   state |-> "good", status |-> 0],
      [path |-> "/callback", code |-> "evil",    state |-> "bad", status |-> 0],
      [path |-> "/callback", code |-> "evil",    state |-> NoParam, status |-> 0],
      [path |-> "/favicon.ico", code |-> "evil", state |-> "bad", status |-> 0] }
NoRequest == [path |-> "", code |-> NoParam, state |-> NoParam, status |-> 0]

-----------------------------------------------------------------------------
(* Python dict helpers *)
EmptyDict == [k \in {} |-> 0]

Merge(f, g) == [k \in (DOMAIN f) \cup (DOMAIN g) |-> IF k \in DOMAIN f THEN f[k] ELSE g[k]]

DictGet(d, k, default) == IF k \in DOMAIN d THEN d[k] ELSE default

DictSet(d, k, v) == [x \in (DOMAIN d) \cup {k} |-> IF x = k THEN v ELSE d[x]]

RECURSIVE Pow2(_)
Pow2(n) == IF n = 0 THEN 1 ELSE 2 * Pow2(n - 1)

(* The JSON body of a successful token response: the n-th token set the    *)
(* endpoint issues, with or without refresh_token and expires_in.          *)
TokenResponse(n, hasRT, lo) ==
    Merge([access_token |-> n],
          Merge(IF hasRT THEN [refresh_token |-> n] ELSE EmptyDict,
                IF lo # <<>> THEN [expires_in |-> lo[1]] ELSE EmptyDict))

WithExp_noLifetime(resp, now, stored) == DictSet(resp, "exp", now)

WithExp_stale(resp, now, stored) ==
    DictSet(resp, "exp", IF stored # <<>> /\ "exp" \in DOMAIN stored[1] THEN stored[1].exp
                         ELSE now + DictGet(resp, "expires_in", 0))

(* The absolute expiry added to a token response: saxo_client              *)
(* _refresh_token line 57, QQQ exchange_code_for_token line 73 and         *)
(* refresh_token line 103.  stored is the token file, which they ignore.   *)
WithExp(resp, now, stored) == DictSet(resp, "exp", now + DictGet(resp, "expires_in", 0))

-----------------------------------------------------------------------------
(* The variables of each script *)
SC_vars == <<sc_pc, sc_retry, sc_params, sc_url, sc_tok, sc_token_obj, sc_now,
             rf_caller, rf_tok, rf_attempt, rf_tries, rf_sleeps, rf_last,
             sc_log, sc_nTok, sc_file0, sc_err>>

Q_vars == <<q_pc, q_waited, httpd_code, httpd_event, httpd_serving, httpd_bound,
            q_nReq, q_last, q_code, q_tok, q_now, q_nExch>>

B_vars == <<botFile, b_pc, b_second, b_token_data, b_rtSent, b_log, b_err>>

G_vars == <<g_pc, g_httpd_code, g_bound, g_nReq, g_last, g_code, g_env, g_nExch>>

T_vars == <<t_pc, t_tok>>

W_vars == <<w_path, w_umask, w_final, w_tmp, w_who, w_pc, w_new, w_old, w_last>>

NotSC == <<Q_vars, B_vars, G_vars, T_vars, W_vars>>
NotQ == <<SC_vars, B_vars, G_vars, T_vars, W_vars>>
NotB == <<tokenFile, SC_vars, Q_vars, G_vars, T_vars, W_vars>>
NotG == <<clock, issued, tokenFile, SC_vars, Q_vars, B_vars, T_vars, W_vars>>
NotT == <<SC_vars, Q_vars, B_vars, G_vars, W_vars>>
NotW == <<clock, issued, tokenFile, SC_vars, Q_vars, B_vars, G_vars, T_vars>>

vars == <<prog, clock, issued, tokenFile, SC_vars, Q_vars, B_vars, G_vars, T_vars, W_vars>>

-----------------------------------------------------------------------------
(* The locals of an invocation that has ended are gone when the next one  *)
(* starts.                                                                 *)
SC_Reset ==
    /\ sc_pc' = "idle"
    /\ sc_retry' = TRUE
    /\ sc_params' = FALSE
    /\ sc_url' = 0
    /\ sc_tok' = EmptyDict
    /\ sc_token_obj' = EmptyDict
    /\ sc_now' = 0
    /\ rf_caller' = ""
    /\ rf_tok' = 0
    /\ rf_attempt' = 0
    /\ rf_tries' = 0
    /\ rf_sleeps' = <<>>
    /\ rf_last' = NoStatus
    /\ sc_log' = <<>>
    /\ sc_nTok' = 0
    /\ sc_file0' = <<>>
    /\ sc_err' = ""

Q_Reset ==
    /\ q_pc' = "idle"
    /\ q_waited' = FALSE
    /\ httpd_code' = NoParam
    /\ httpd_event' = FALSE
    /\ httpd_serving' = FALSE
    /\ httpd_bound' = FALSE
    /\ q_nReq' = 0
    /\ q_last' = NoRequest
    /\ q_code' = NoParam
    /\ q_tok' = EmptyDict
    /\ q_now' = 0
    /\ q_nExch' = 0

SC_Idle == sc_pc \in {"idle", "done", "failed"}

Q_Idle == q_pc \in {"idle", "done", "exit1", "crashed"}

-----------------------------------------------------------------------------
(* saxo_client.py *)

SC_load_token == IF tokenFile = <<>> THEN EmptyDict ELSE tokenFile[1]

SC_save_token_skipped(data) == tokenFile

(* _save_token lines 32-37: afterwards TOKEN_FILE holds data *)
SC_save_token(data) == <<data>>

SC_InitVars ==
    /\ sc_pc = "idle"
    /\ sc_retry = TRUE
    /\ sc_params = FALSE
    /\ sc_url = 0
    /\ sc_tok = EmptyDict
    /\ sc_token_obj = EmptyDict
    /\ sc_now = 0
    /\ rf_caller = ""
    /\ rf_tok = 0
    /\ rf_attempt = 0
    /\ rf_tries = 0
    /\ rf_sleeps = <<>>
    /\ rf_last = NoStatus
    /\ sc_log = <<>>
    /\ sc_nTok = 0
    /\ sc_file0 = <<>>
    /\ sc_err = ""

SC_is_fatal_never(code) == FALSE

(* _refresh_token line 61: a client error is not retried *)
SC_is_fatal(code) == 400 <= code /\ code < 500

SC_more_attempts_offByOne(attempt) == attempt <= Retries

(* _refresh_token lines 53, 66: after a failed attempt, sleep and try again *)
SC_more_attempts(attempt) == attempt < Retries

SC_still_valid_botMargin(now, tok) == now < tok.exp - BotMargin

SC_still_valid_noMargin(now, tok) == now < tok.exp

(* get_valid_token line 84 *)
SC_still_valid(now, tok) == now < tok.exp - SafetyMargin

SC_not_tok_never(tok) == FALSE

(* get_valid_token line 75: `if not tok` (None and {} are both falsy) *)
SC_not_tok(tok) == tok = EmptyDict

SC_refresh_on_anyError(status, retry) == status >= 400 /\ retry

(* _request line 128: `if e.code == 401 and retry` *)
SC_refresh_on(status, retry) == status = 401 /\ retry

SC_sleep_for_constant(attempt) == Backoff

(* _refresh_token line 67: sleep = backoff * (2 ** attempt) *)
SC_sleep_for(attempt) == Backoff * Pow2(attempt)

SC_recursive_retry_kept == TRUE

(* _request line 133: the retry argument of the recursive call *)
SC_recursive_retry == FALSE

(* _request lines 113-123 once get_valid_token has returned token_obj *)
SC_prepare(token_obj) ==
    /\ sc_token_obj' = token_obj
    /\ sc_url' = IF sc_params THEN sc_url + 1 ELSE sc_url
    /\ sc_pc' = "urlopen"

SC_raise(e) ==
    /\ sc_pc' = "failed"
    /\ sc_err' = e

(* A caller invokes get()/post()/_request() with retry defaulting to True *)
SC_request(params) ==
    /\ prog = "ibkr"
    /\ SC_Idle
    /\ Q_Idle
    /\ sc_pc' = "get_valid_token"
    /\ sc_retry' = TRUE
    /\ sc_params' = params
    /\ sc_url' = 0
    /\ sc_log' = <<>>
    /\ sc_nTok' = 0
    /\ sc_file0' = tokenFile
    /\ sc_err' = ""
    /\ sc_tok' = EmptyDict
    /\ sc_token_obj' = EmptyDict
    /\ sc_now' = 0
    /\ rf_caller' = ""
    /\ rf_tok' = 0
    /\ rf_attempt' = 0
    /\ rf_tries' = 0
    /\ rf_sleeps' = <<>>
    /\ rf_last' = NoStatus
    /\ Q_Reset
    /\ UNCHANGED <<B_vars, G_vars, T_vars, W_vars, prog, clock, issued, tokenFile>>

SC_refresh_token_call(caller, refresh_tok) ==
    /\ rf_caller' = caller
    /\ rf_tok' = refresh_tok
    /\ rf_attempt' = 0
    /\ rf_tries' = 0
    /\ rf_sleeps' = <<>>
    /\ rf_last' = NoStatus
    /\ sc_pc' = "refresh"

SC_get_valid_token ==
    /\ sc_pc = "get_valid_token"
    /\ sc_now' = clock
    /\ IF SC_not_tok(SC_load_token)
       THEN /\ SC_raise("NotAuthorized")
            /\ UNCHANGED <<sc_tok, sc_token_obj, sc_url, rf_caller, rf_tok,
                           rf_attempt, rf_tries, rf_sleeps, rf_last>>
       ELSE LET loaded == SC_load_token
                tok == IF "exp" \in DOMAIN loaded THEN loaded
                       ELSE DictSet(loaded, "exp", clock + DictGet(loaded, "expires_in", 0))
            IN /\ sc_tok' = tok
               /\ IF SC_still_valid(clock, tok)
                  THEN /\ SC_prepare(tok)
                       /\ UNCHANGED <<sc_err, rf_caller, rf_tok, rf_attempt,
                                      rf_tries, rf_sleeps, rf_last>>
                  ELSE IF "refresh_token" \notin DOMAIN tok
                       THEN /\ SC_raise("KeyError")
                            /\ UNCHANGED <<sc_token_obj, sc_url, rf_caller, rf_tok,
                                           rf_attempt, rf_tries, rf_sleeps, rf_last>>
                       ELSE /\ SC_refresh_token_call("get_valid_token", tok.refresh_token)
                            /\ UNCHANGED <<sc_token_obj, sc_url, sc_err>>
    /\ UNCHANGED <<NotSC, prog, clock, issued, tokenFile, sc_retry, sc_params,
                   sc_log, sc_nTok, sc_file0>>

(* _refresh_token: urlopen answers 2xx with a JSON body *)
SC_refresh_ok(hasRT, lo) ==
    /\ sc_pc = "refresh"
    /\ issued < MaxIssued
    /\ LET resp == TokenResponse(issued + 1, hasRT, lo)
           data == WithExp(resp, clock, tokenFile)
       IN /\ issued' = issued + 1
          /\ rf_tries' = rf_tries + 1
          /\ sc_nTok' = sc_nTok + 1
          /\ rf_last' = 200
          /\ sc_log' = Append(sc_log, [kind |-> "refresh", token |-> data.access_token,
                                       caller |-> rf_caller])
          /\ IF rf_caller = "get_valid_token"
             THEN LET refreshed == IF "refresh_token" \notin DOMAIN data
                                   THEN DictSet(data, "refresh_token", sc_tok.refresh_token)
                                   ELSE data
                  IN /\ tokenFile' = SC_save_token(refreshed)
                     /\ SC_prepare(refreshed)
                     /\ UNCHANGED sc_retry
             ELSE /\ tokenFile' = SC_save_token(data)
                  /\ sc_pc' = "get_valid_token"
                  /\ sc_retry' = SC_recursive_retry
                  /\ UNCHANGED <<sc_token_obj, sc_url>>
    /\ UNCHANGED <<NotSC, prog, clock, sc_params, sc_tok, sc_now, rf_caller, rf_tok,
                   rf_attempt, rf_sleeps, sc_file0, sc_err>>

(* _refresh_token lines 59-70: urlopen raises HTTPError(code), or another *)
(* exception (code = 0)                                                    *)
SC_refresh_error(code) ==
    /\ sc_pc = "refresh"
    /\ rf_tries' = rf_tries + 1
    /\ sc_nTok' = sc_nTok + 1
    /\ rf_last' = code
    /\ IF SC_is_fatal(code)
       THEN SC_raise("AuthRejected")
       ELSE IF SC_more_attempts(rf_attempt)
            THEN /\ sc_pc' = "sleep"
                 /\ UNCHANGED sc_err
            ELSE SC_raise("TransientFailure")
    /\ UNCHANGED <<NotSC, prog, clock, issued, tokenFile, sc_retry, sc_params, sc_url,
                   sc_tok, sc_token_obj, sc_now, rf_caller, rf_tok, rf_attempt,
                   rf_sleeps, sc_log, sc_file0>>

(* _refresh_token: time.sleep(backoff * 2 ** attempt), then the next iteration *)
SC_refresh_sleep ==
    /\ sc_pc = "sleep"
    /\ rf_sleeps' = Append(rf_sleeps, SC_sleep_for(rf_attempt))
    /\ rf_attempt' = rf_attempt + 1
    /\ sc_pc' = "refresh"
    /\ UNCHANGED <<NotSC, prog, clock, issued, tokenFile, sc_retry, sc_params, sc_url,
                   sc_tok, sc_token_obj, sc_now, rf_caller, rf_tok, rf_tries,
                   rf_last, sc_log, sc_nTok, sc_file0, sc_err>>

(* _request: urlopen of the API request answers with an HTTP status *)
SC_urlopen(status) ==
    /\ sc_pc = "urlopen"
    /\ sc_log' = Append(sc_log, [kind |-> "api", token |-> sc_token_obj.access_token,
                                 status |-> status, url |-> sc_url])
    /\ IF status = 200
       THEN /\ sc_pc' = "done"
            /\ UNCHANGED <<sc_err, rf_caller, rf_tok, rf_attempt, rf_tries,
                           rf_sleeps, rf_last>>
       ELSE IF SC_refresh_on(status, sc_retry)
            THEN IF "refresh_token" \notin DOMAIN sc_token_obj
                 THEN /\ SC_raise("KeyError")
                      /\ UNCHANGED <<rf_caller, rf_tok, rf_attempt, rf_tries,
                                     rf_sleeps, rf_last>>
                 ELSE /\ SC_refresh_token_call("_request", sc_token_obj.refresh_token)
                      /\ UNCHANGED sc_err
            ELSE /\ SC_raise("HTTP")
                 /\ UNCHANGED <<rf_caller, rf_tok, rf_attempt, rf_tries,
                                rf_sleeps, rf_last>>
    /\ UNCHANGED <<NotSC, prog, clock, issued, tokenFile, sc_retry, sc_params, sc_url,
                   sc_tok, sc_token_obj, sc_now, sc_nTok, sc_file0>>

(* _request: urlopen of the API request raises URLError (not an HTTPError) *)
SC_urlopen_neterr ==
    /\ sc_pc = "urlopen"
    /\ sc_log' = Append(sc_log, [kind |-> "api", token |-> sc_token_obj.access_token,
                                 status |-> NetError, url |-> sc_url])
    /\ SC_raise("URLError")
    /\ UNCHANGED <<NotSC, prog, clock, issued, tokenFile, sc_retry, sc_params, sc_url,
                   sc_tok, sc_token_obj, sc_now, rf_caller, rf_tok, rf_attempt,
                   rf_tries, rf_sleeps, rf_last, sc_nTok, sc_file0>>

-----------------------------------------------------------------------------
(* QQQ.py *)

Q_InitVars ==
    /\ q_pc = "idle"
    /\ q_waited = FALSE
    /\ httpd_code = NoParam
    /\ httpd_event = FALSE
    /\ httpd_serving = FALSE
    /\ httpd_bound = FALSE
    /\ q_nReq = 0
    /\ q_last = NoRequest
    /\ q_code = NoParam
    /\ q_tok = EmptyDict
    /\ q_now = 0
    /\ q_nExch = 0

QQQ_save_token(data) == <<data>>

QQQ_load_token == IF tokenFile = <<>> THEN EmptyDict ELSE tokenFile[1]

(* main, lines 128-146: the process starts; without a token file it builds *)
(* the authorize URL, binds the listener, starts serve_forever and waits.  *)
QQQ_main ==
    /\ prog = "ibkr"
    /\ Q_Idle
    /\ SC_Idle
    /\ q_waited' = FALSE
    /\ httpd_code' = NoParam
    /\ httpd_event' = FALSE
    /\ q_nReq' = 0
    /\ q_last' = NoRequest
    /\ q_code' = NoParam
    /\ q_tok' = EmptyDict
    /\ q_now' = 0
    /\ q_nExch' = 0
    /\ IF tokenFile = <<>>
       THEN /\ httpd_bound' = TRUE
            /\ httpd_serving' = TRUE
            /\ q_pc' = "waiting"
       ELSE /\ httpd_bound' = FALSE
            /\ httpd_serving' = FALSE
            /\ q_pc' = "get_valid_token"
    /\ SC_Reset
    /\ UNCHANGED <<B_vars, G_vars, T_vars, W_vars, prog, clock, issued, tokenFile>>

(* OAuthHandler.do_GET, run by the server thread for one request *)
QQQ_do_GET(req) ==
    /\ httpd_serving
    /\ q_nReq < MaxRequests
    /\ q_nReq' = q_nReq + 1
    /\ IF req.path # "/callback"
       THEN /\ q_last' = [req EXCEPT !.status = 404]
            /\ UNCHANGED <<httpd_code, httpd_event>>
       ELSE /\ IF req.state # "good" \/ req.code = NoParam
               THEN /\ q_last' = [req EXCEPT !.status = 400]
                    /\ httpd_code' = NoParam
               ELSE /\ q_last' = [req EXCEPT !.status = 200]
                    /\ httpd_code' = req.code
            /\ httpd_event' = TRUE
    /\ UNCHANGED <<prog, clock, issued, tokenFile, NotQ, q_pc, q_waited,
                   httpd_serving, httpd_bound, q_code, q_tok, q_now, q_nExch>>

(* main, line 146: httpd.event.wait returns True because the event is set *)
QQQ_wait_signalled ==
    /\ q_pc = "waiting"
    /\ httpd_event
    /\ q_waited' = TRUE
    /\ q_pc' = "shutdown"
    /\ UNCHANGED <<prog, clock, issued, tokenFile, NotQ, httpd_code, httpd_event,
                   httpd_serving, httpd_bound, q_nReq, q_last, q_code, q_tok, q_now, q_nExch>>

(* main, line 146: the 300 s timeout of httpd.event.wait expires *)
QQQ_wait_timeout ==
    /\ q_pc = "waiting"
    /\ ~httpd_event
    /\ q_waited' = FALSE
    /\ q_pc' = "shutdown"
    /\ UNCHANGED <<prog, clock, issued, tokenFile, NotQ, httpd_code, httpd_event,
                   httpd_serving, httpd_bound, q_nReq, q_last, q_code, q_tok, q_now, q_nExch>>

QQQ_wait_failed_ignoresCode(waited, code) == ~waited

(* main line 149: `if not waited or not httpd.code` *)
QQQ_wait_failed(waited, code) == ~waited \/ code = NoParam

(* main, lines 147-153: httpd.shutdown() returns (serve_forever has        *)
(* stopped; the socket stays open, server_close is never called), then the *)
(* check of waited and httpd.code.  sys.exit ends the process, which       *)
(* closes its sockets.                                                     *)
QQQ_shutdown ==
    /\ q_pc = "shutdown"
    /\ httpd_serving' = FALSE
    /\ IF QQQ_wait_failed(q_waited, httpd_code)
       THEN /\ q_pc' = "exit1"
            /\ httpd_bound' = FALSE
            /\ UNCHANGED q_code
       ELSE /\ q_pc' = "exchange"
            /\ q_code' = httpd_code
            /\ UNCHANGED httpd_bound
    /\ UNCHANGED <<prog, clock, issued, tokenFile, NotQ, q_waited, httpd_code,
                   httpd_event, q_nReq, q_last, q_tok, q_now, q_nExch>>

(* main, lines 153-155: exchange_code_for_token answers 2xx; the token is  *)
(* saved and main returns, which ends the process.                         *)
QQQ_exchange_ok(hasRT, lo) ==
    /\ q_pc = "exchange"
    /\ issued < MaxIssued
    /\ LET resp == TokenResponse(issued + 1, hasRT, lo)
           token == WithExp(resp, clock, tokenFile)
       IN tokenFile' = QQQ_save_token(token)
    /\ issued' = issued + 1
    /\ q_nExch' = q_nExch + 1
    /\ q_pc' = "done"
    /\ httpd_bound' = FALSE
    /\ UNCHANGED <<prog, clock, NotQ, q_waited, httpd_code, httpd_event,
                   httpd_serving, q_nReq, q_last, q_code, q_tok, q_now>>

After_exchange_error_retries == "exchange"

(* Where a run goes when exchange_code_for_token raises (QQQ.py line 70,   *)
(* get_saxo_token.py lines 94-95): nothing in main catches the exception   *)
After_exchange_error == "crashed"

(* exchange_code_for_token: urlopen raises (an HTTP error status, or a     *)
(* network error)                                                          *)
QQQ_exchange_fail ==
    /\ q_pc = "exchange"
    /\ q_nExch' = q_nExch + 1
    /\ q_pc' = After_exchange_error
    /\ httpd_bound' = FALSE
    /\ UNCHANGED <<prog, clock, issued, tokenFile, NotQ, q_waited, httpd_code,
                   httpd_event, httpd_serving, q_nReq, q_last, q_code, q_tok, q_now>>

(* get_valid_token, lines 107-118, called by main when the file exists *)
QQQ_get_valid_token ==
    /\ q_pc = "get_valid_token"
    /\ LET tok == QQQ_load_token
           now == clock
       IN /\ q_tok' = tok
          /\ q_now' = now
          /\ IF tokenFile = <<>>
             THEN q_pc' = "crashed"
             ELSE IF now < DictGet(tok, "exp", 0) - SafetyMargin
                  THEN q_pc' = "done"
                  ELSE IF "refresh_token" \notin DOMAIN tok
                       THEN q_pc' = "crashed"
                       ELSE q_pc' = "refresh"
    /\ UNCHANGED <<prog, clock, issued, tokenFile, NotQ, q_waited, httpd_code,
                   httpd_event, httpd_serving, httpd_bound, q_nReq, q_last, q_code, q_nExch>>

(* refresh_token answers 2xx; get_valid_token lines 119-123 *)
QQQ_refresh_ok(hasRT, lo) ==
    /\ q_pc = "refresh"
    /\ issued < MaxIssued
    /\ LET resp == TokenResponse(issued + 1, hasRT, lo)
           token == WithExp(resp, clock, tokenFile)
           refreshed == IF "refresh_token" \notin DOMAIN token
                        THEN DictSet(token, "refresh_token", q_tok.refresh_token)
                        ELSE token
       IN tokenFile' = QQQ_save_token(refreshed)
    /\ issued' = issued + 1
    /\ q_pc' = "done"
    /\ UNCHANGED <<prog, clock, NotQ, q_waited, httpd_code, httpd_event,
                   httpd_serving, httpd_bound, q_nReq, q_last, q_code, q_tok, q_now, q_nExch>>

(* refresh_token: urlopen raises; nothing catches it *)
QQQ_refresh_fail ==
    /\ q_pc = "refresh"
    /\ q_pc' = "crashed"
    /\ UNCHANGED <<prog, clock, issued, tokenFile, NotQ, q_waited, httpd_code,
                   httpd_event, httpd_serving, httpd_bound, q_nReq, q_last, q_code, q_tok, q_now, q_nExch>>

-----------------------------------------------------------------------------
(* bot-token-dennik.py *)

B_Idle == b_pc \in {"idle", "done", "failed"}

B_InitVars ==
    /\ botFile = <<>>
    /\ b_pc = "idle"
    /\ b_second = FALSE
    /\ b_token_data = EmptyDict
    /\ b_rtSent = ConfigRT
    /\ b_log = <<>>
    /\ b_err = ""

(* The JSON body of a successful token response as this script reads it:   *)
(* the access token is a string that jwt.decode may or may not decode to a *)
(* payload with an exp claim (jwtExp = 0: it does not).                    *)
Bot_TokenResponse(n, hasRT, lo, jwtExp) ==
    Merge([access_token |-> [id |-> n, jwt_exp |-> jwtExp]],
          Merge(IF hasRT THEN [refresh_token |-> n] ELSE EmptyDict,
                IF lo # <<>> THEN [expires_in |-> lo[1]] ELSE EmptyDict))

Bot_save_token(data) == <<data>>

Bot_load_token == IF botFile = <<>> THEN EmptyDict ELSE botFile[1]

Bot_invalidate_token_keeps(file) == file

(* invalidate_token lines 78-79: unlink when the file exists *)
Bot_invalidate_token(file) == IF file # <<>> THEN <<>> ELSE file

token_is_valid(token_data, now) ==
    IF DictGet(token_data, "expiry_ts", 0) # 0
    THEN token_data.expiry_ts > now
    ELSE IF "access_token" \notin DOMAIN token_data
         THEN FALSE
         ELSE /\ token_data.access_token.jwt_exp # 0
              /\ token_data.access_token.jwt_exp > now

(* example_api_call is entered *)
Bot_example_api_call ==
    /\ prog = "bot"
    /\ B_Idle
    /\ b_pc' = "get_valid_token"
    /\ b_second' = FALSE
    /\ b_token_data' = EmptyDict
    /\ b_rtSent' = ConfigRT
    /\ b_log' = <<>>
    /\ b_err' = ""
    /\ UNCHANGED <<NotB, prog, clock, issued, botFile>>

(* get_valid_token up to the POST of obtain_new_access, or to its return *)
Bot_get_valid_token ==
    /\ b_pc = "get_valid_token"
    /\ LET token_data == Bot_load_token
       IN /\ b_token_data' = token_data
          /\ IF ~token_is_valid(token_data, clock)
             THEN /\ b_rtSent' = ConfigRT
                  /\ b_pc' = "refresh"
             ELSE IF DictGet(token_data, "expiry_ts", 0) - clock < BotMargin
                  THEN /\ b_rtSent' = DictGet(token_data, "refresh_token", ConfigRT)
                       /\ b_pc' = "refresh"
                  ELSE /\ b_pc' = "send"
                       /\ UNCHANGED b_rtSent
    /\ UNCHANGED <<NotB, prog, clock, issued, botFile, b_second, b_log, b_err>>

(* obtain_new_access: the POST answers 2xx; lines 99-111, then             *)
(* get_valid_token lines 128-131                                           *)
Bot_obtain_new_access_ok(hasRT, lo, jwtExp) ==
    /\ b_pc = "refresh"
    /\ issued < MaxIssued
    /\ LET resp == Bot_TokenResponse(issued + 1, hasRT, lo, jwtExp)
           data == IF "expires_in" \in DOMAIN resp
                   THEN DictSet(resp, "expiry_ts", clock + resp.expires_in)
                   ELSE resp
       IN /\ botFile' = Bot_save_token(data)
          /\ b_token_data' = data
          /\ b_log' = Append(b_log, [kind |-> "refresh", token |-> data.access_token,
                                     sent |-> b_rtSent,
                                     rt |-> DictGet(data, "refresh_token", ConfigRT)])
    /\ issued' = issued + 1
    /\ b_pc' = "send"
    /\ UNCHANGED <<NotB, prog, clock, b_second, b_rtSent, b_err>>

(* obtain_new_access: raise_for_status or requests.post raises *)
Bot_obtain_new_access_fail ==
    /\ b_pc = "refresh"
    /\ b_pc' = "failed"
    /\ b_err' = "RefreshFailed"
    /\ UNCHANGED <<NotB, prog, clock, issued, botFile, b_second, b_token_data,
                   b_rtSent, b_log>>

(* example_api_call: requests.get answers with an HTTP status *)
Bot_requests_get(status) ==
    /\ b_pc = "send"
    /\ b_log' = Append(b_log, [kind |-> "api", token |-> b_token_data.access_token,
                               status |-> status])
    /\ IF status = 401 /\ ~b_second
       THEN /\ botFile' = Bot_invalidate_token(botFile)
            /\ b_second' = TRUE
            /\ b_pc' = "get_valid_token"
            /\ UNCHANGED b_err
       ELSE /\ IF status >= 400
               THEN /\ b_pc' = "failed"
                    /\ b_err' = "HTTP"
               ELSE /\ b_pc' = "done"
                    /\ UNCHANGED b_err
            /\ UNCHANGED <<botFile, b_second>>
    /\ UNCHANGED <<NotB, prog, clock, issued, b_token_data, b_rtSent>>

(* example_api_call: requests.get raises (connection error, timeout) *)
Bot_requests_get_neterr ==
    /\ b_pc = "send"
    /\ b_log' = Append(b_log, [kind |-> "api", token |-> b_token_data.access_token,
                               status |-> NetError])
    /\ b_pc' = "failed"
    /\ b_err' = "ConnectionError"
    /\ UNCHANGED <<NotB, prog, clock, issued, botFile, b_second, b_token_data, b_rtSent>>

-----------------------------------------------------------------------------
(* get_saxo_token.py *)

G_InitVars ==
    /\ g_pc = "idle"
    /\ g_httpd_code = NoParam
    /\ g_bound = FALSE
    /\ g_nReq = 0
    /\ g_last = NoRequest
    /\ g_code = NoParam
    /\ g_env = EmptyDict
    /\ g_nExch = 0

(* main up to start_local_server line 79: the listener is bound *)
GST_main ==
    /\ prog = "gst"
    /\ g_pc \in {"idle", "done", "crashed"}
    /\ g_pc' = "serving"
    /\ g_httpd_code' = NoParam
    /\ g_bound' = TRUE
    /\ g_nReq' = 0
    /\ g_last' = NoRequest
    /\ g_code' = NoParam
    /\ g_nExch' = 0
    /\ UNCHANGED <<NotG, prog, g_env>>

(* start_local_server lines 79-81: handle_request serves one request with  *)
(* CallbackHandler.do_GET; once httpd.code is set the loop ends and the    *)
(* with block closes the server.                                           *)
GST_handle_request(req) ==
    /\ g_pc = "serving"
    /\ g_nReq < MaxRequests
    /\ g_nReq' = g_nReq + 1
    /\ IF req.code # NoParam
       THEN /\ g_httpd_code' = req.code
            /\ g_last' = [req EXCEPT !.status = 200]
            /\ g_bound' = FALSE
            /\ g_code' = req.code
            /\ g_pc' = "exchange"
       ELSE /\ g_last' = [req EXCEPT !.status = 400]
            /\ UNCHANGED <<g_httpd_code, g_bound, g_code, g_pc>>
    /\ UNCHANGED <<NotG, prog, g_env, g_nExch>>

(* main lines 144-149: exchange_code_for_token answers 2xx, persist_tokens *)
GST_exchange_ok(hasRT, lo) ==
    /\ g_pc = "exchange"
    /\ issued < MaxIssued
    /\ LET token_data == TokenResponse(issued + 1, hasRT, lo)
           env1 == DictSet(g_env, "SAXO_ACCESS_TOKEN", token_data.access_token)
       IN g_env' = IF "refresh_token" \in DOMAIN token_data
                   THEN DictSet(env1, "SAXO_REFRESH_TOKEN", token_data.refresh_token)
                   ELSE env1
    /\ issued' = issued + 1
    /\ g_nExch' = g_nExch + 1
    /\ g_pc' = "done"
    /\ UNCHANGED <<prog, clock, tokenFile, SC_vars, Q_vars, B_vars, T_vars, W_vars,
                   g_httpd_code, g_bound, g_nReq, g_last, g_code>>

(* exchange_code_for_token: raise_for_status or requests.post raises *)
GST_exchange_fail ==
    /\ g_pc = "exchange"
    /\ g_nExch' = g_nExch + 1
    /\ g_pc' = After_exchange_error
    /\ UNCHANGED <<NotG, prog, g_httpd_code, g_bound, g_nReq, g_last, g_code, g_env>>

-----------------------------------------------------------------------------
(* Two callers of saxo_client.get_valid_token in one process.  The module  *)
(* holds no lock: each caller runs lines 73-93 on its own locals and on    *)
(* the shared token file.                                                  *)

(* The record QQQ.main stored when the authorization flow ended at time 0  *)
BootRecord ==
    LET resp == TokenResponse(1, TRUE, <<30>>)
    IN DictSet(resp, "exp", resp.expires_in)

T_InitVars ==
    /\ t_pc = [t \in Threads |-> "idle"]
    /\ t_tok = [t \in Threads |-> EmptyDict]

(* get_valid_token lines 74-87: load, check, and either return or enter    *)
(* _refresh_token                                                          *)
T_get_valid_token(t) ==
    /\ prog = "threads"
    /\ t_pc[t] = "idle"
    /\ LET loaded == SC_load_token
           now == clock
           tok == IF "exp" \in DOMAIN loaded THEN loaded
                  ELSE DictSet(loaded, "exp", now + DictGet(loaded, "expires_in", 0))
       IN IF SC_not_tok(loaded)
          THEN /\ t_pc' = [t_pc EXCEPT ![t] = "failed"]
               /\ UNCHANGED t_tok
          ELSE /\ t_tok' = [t_tok EXCEPT ![t] = tok]
               /\ t_pc' = [t_pc EXCEPT ![t] =
                              IF SC_still_valid(now, tok) THEN "done"
                              ELSE IF "refresh_token" \notin DOMAIN tok THEN "failed"
                              ELSE "refresh"]
    /\ UNCHANGED <<NotT, prog, clock, issued, tokenFile>>

(* _refresh_token returns the response; get_valid_token lines 88-93 *)
T_refresh_ok(t, hasRT, lo) ==
    /\ t_pc[t] = "refresh"
    /\ issued < MaxIssued
    /\ LET resp == TokenResponse(issued + 1, hasRT, lo)
           data == WithExp(resp, clock, tokenFile)
           refreshed == IF "refresh_token" \notin DOMAIN data
                        THEN DictSet(data, "refresh_token", t_tok[t].refresh_token)
                        ELSE data
       IN tokenFile' = SC_save_token(refreshed)
    /\ issued' = issued + 1
    /\ t_pc' = [t_pc EXCEPT ![t] = "done"]
    /\ UNCHANGED <<NotT, prog, clock, t_tok>>

(* _refresh_token raises (a 4xx, or the retries are used up) *)
T_refresh_raise(t) ==
    /\ t_pc[t] = "refresh"
    /\ t_pc' = [t_pc EXCEPT ![t] = "failed"]
    /\ UNCHANGED <<NotT, prog, clock, issued, tokenFile, t_tok>>

(* The call is over; the caller may call again *)
T_return(t) ==
    /\ t_pc[t] \in {"done", "failed"}
    /\ t_pc' = [t_pc EXCEPT ![t] = "idle"]
    /\ t_tok' = [t_tok EXCEPT ![t] = EmptyDict]
    /\ UNCHANGED <<NotT, prog, clock, issued, tokenFile>>

-----------------------------------------------------------------------------
(* The token file on disk, one system call at a time.  A file is <<>> when *)
(* the path does not exist, else <<[data, mode]>>: data is 0 for an empty  *)
(* (truncated) file and n for the complete JSON text of record n.          *)

NoOp == [op |-> "", who |-> "", saw |-> <<>>, result |-> ""]

(* The scripts whose TOKEN_FILE is the given file: saxo_client.py and       *)
(* QQQ.py share ~/.ibkr_token.json, bot-token-dennik.py has its own.       *)
UsersOf(path) == IF path = "ibkr" THEN {"saxo_client", "QQQ"} ELSE {"bot"}

W_InitVars ==
    /\ w_path \in IF prog = "store" THEN {"ibkr", "bot"} ELSE {"ibkr"}
    /\ w_umask \in IF prog = "store" THEN {"022", "077"} ELSE {"022"}
    /\ w_final = <<>>
    /\ w_tmp = <<>>
    /\ w_who = ""
    /\ w_pc = "idle"
    /\ w_new = 0
    /\ w_old = <<>>
    /\ w_last = NoOp

(* The mode open(path, "w") gives a file it creates: 0o666 & ~umask *)
CreateMode(umask) == IF umask = "077" THEN "0600" ELSE "0644"

(* open(path, "w"): the file is created, or truncated with its mode kept *)
OpenW(file, umask) ==
    <<[data |-> 0, mode |-> IF file = <<>> THEN CreateMode(umask) ELSE file[1].mode]>>

(* What each script's load function gives for a file *)
W_load_token(who, file) ==
    IF who = "saxo_client"
    THEN IF file = <<>> THEN "None"
         ELSE IF file[1].data = 0 THEN "RuntimeError" ELSE "record"
    ELSE IF who = "QQQ"
    THEN IF file = <<>> THEN "None"
         ELSE IF file[1].data = 0 THEN "JSONDecodeError" ELSE "record"
    ELSE IF file = <<>> THEN "{}"
         ELSE IF file[1].data = 0 THEN "{}" ELSE "record"

(* A save function is entered and opens its file for writing:              *)
(* saxo_client._save_token opens the .tmp file, QQQ.save_token and         *)
(* bot-token-dennik save_token open TOKEN_FILE itself.                     *)
W_save_open(who) ==
    /\ prog = "store"
    /\ who \in UsersOf(w_path)
    /\ w_pc = "idle"
    /\ w_new < MaxSaves
    /\ w_who' = who
    /\ w_new' = w_new + 1
    /\ w_old' = w_final
    /\ IF who = "saxo_client"
       THEN /\ w_tmp' = OpenW(w_tmp, w_umask)
            /\ w_pc' = "tmp_open"
            /\ UNCHANGED w_final
       ELSE /\ w_final' = OpenW(w_final, w_umask)
            /\ w_pc' = "final_open"
            /\ UNCHANGED w_tmp
    /\ UNCHANGED <<NotW, prog, w_path, w_umask, w_last>>

(* _save_token lines 34-35: json.dump into the .tmp file, and close *)
W_tmp_write ==
    /\ w_pc = "tmp_open"
    /\ w_tmp' = <<[w_tmp[1] EXCEPT !.data = w_new]>>
    /\ w_pc' = "tmp_written"
    /\ UNCHANGED <<NotW, prog, w_path, w_umask, w_final, w_who, w_new, w_old, w_last>>

(* _save_token line 36: tmp.replace(TOKEN_FILE) *)
W_replace ==
    /\ w_pc = "tmp_written"
    /\ w_final' = w_tmp
    /\ w_tmp' = <<>>
    /\ w_pc' = "replaced"
    /\ UNCHANGED <<NotW, prog, w_path, w_umask, w_who, w_new, w_old, w_last>>

(* _save_token line 37: TOKEN_FILE.chmod(0o600); the save is over *)
W_chmod ==
    /\ w_pc = "replaced"
    /\ w_final' = <<[w_final[1] EXCEPT !.mode = "0600"]>>
    /\ w_pc' = "idle"
    /\ UNCHANGED <<NotW, prog, w_path, w_umask, w_tmp, w_who, w_new, w_old, w_last>>

(* QQQ.save_token lines 78-79, bot save_token line 42: the JSON text is    *)
(* written into TOKEN_FILE and the file closed; the save is over           *)
W_final_write ==
    /\ w_pc = "final_open"
    /\ w_final' = <<[w_final[1] EXCEPT !.data = w_new]>>
    /\ w_pc' = "idle"
    /\ UNCHANGED <<NotW, prog, w_path, w_umask, w_tmp, w_who, w_new, w_old, w_last>>

(* The process is killed inside a save: the files stay as they are *)
W_kill ==
    /\ w_pc # "idle"
    /\ w_pc' = "idle"
    /\ UNCHANGED <<NotW, prog, w_path, w_umask, w_final, w_tmp, w_who, w_new, w_old, w_last>>

(* A load function reads TOKEN_FILE, at any moment *)
W_load(who) ==
    /\ prog = "store"
    /\ who \in UsersOf(w_path)
    /\ w_last' = [op |-> "load", who |-> who, saw |-> w_final,
                  result |-> W_load_token(who, w_final)]
    /\ UNCHANGED <<NotW, prog, w_path, w_umask, w_final, w_tmp, w_who, w_pc, w_new, w_old>>

(* bot-token-dennik invalidate_token is called *)
W_invalidate ==
    /\ prog = "store"
    /\ w_path = "bot"
    /\ w_pc = "idle"
    /\ w_final' = Bot_invalidate_token(w_final)
    /\ w_last' = [op |-> "invalidate", who |-> "bot", saw |-> w_final, result |-> "ok"]
    /\ UNCHANGED <<NotW, prog, w_path, w_umask, w_tmp, w_who, w_pc, w_new, w_old>>

-----------------------------------------------------------------------------
(* The clock *)
Tick(d) ==
    /\ prog \in {"ibkr", "bot", "threads"}
    /\ clock + d <= MaxClock
    /\ clock' = clock + d
    /\ UNCHANGED <<prog, issued, tokenFile, SC_vars, Q_vars, B_vars, G_vars, T_vars, W_vars>>

-----------------------------------------------------------------------------
Init ==
    /\ prog \in Programs
    /\ clock = 0
    /\ issued = (IF prog = "threads" THEN 1 ELSE 0)
    /\ tokenFile = (IF prog = "threads" THEN <<BootRecord>> ELSE <<>>)
    /\ SC_InitVars
    /\ Q_InitVars
    /\ B_InitVars
    /\ G_InitVars
    /\ T_InitVars
    /\ W_InitVars

JwtExps(lo) == IF lo # <<>> THEN {clock + lo[1]} ELSE {0} \cup {clock + l : l \in BotLifetimes}

Next ==
    \/ \E d \in TickSteps : Tick(d)
    \/ \E p \in BOOLEAN : SC_request(p)
    \/ SC_get_valid_token
    \/ \E hasRT \in BOOLEAN, lo \in LifetimeOpts : SC_refresh_ok(hasRT, lo)
    \/ \E code \in RefreshErrors : SC_refresh_error(code)
    \/ SC_refresh_sleep
    \/ \E s \in ApiStatuses : SC_urlopen(s)
    \/ SC_urlopen_neterr
    \/ QQQ_main
    \/ \E req \in Requests : QQQ_do_GET(req)
    \/ QQQ_wait_signalled
    \/ QQQ_wait_timeout
    \/ QQQ_shutdown
    \/ \E hasRT \in BOOLEAN, lo \in LifetimeOpts : QQQ_exchange_ok(hasRT, lo)
    \/ QQQ_exchange_fail
    \/ QQQ_get_valid_token
    \/ \E hasRT \in BOOLEAN, lo \in LifetimeOpts : QQQ_refresh_ok(hasRT, lo)
    \/ QQQ_refresh_fail
    \/ Bot_example_api_call
    \/ Bot_get_valid_token
    \/ \E hasRT \in BOOLEAN, lo \in BotLifetimeOpts :
          \E j \in JwtExps(lo) : Bot_obtain_new_access_ok(hasRT, lo, j)
    \/ Bot_obtain_new_access_fail
    \/ \E s \in ApiStatuses : Bot_requests_get(s)
    \/ Bot_requests_get_neterr
    \/ GST_main
    \/ \E req \in Requests : GST_handle_request(req)
    \/ \E hasRT \in BOOLEAN, lo \in LifetimeOpts : GST_exchange_ok(hasRT, lo)
    \/ GST_exchange_fail
    \/ \E t \in Threads : T_get_valid_token(t)
    \/ \E t \in Threads : \E hasRT \in BOOLEAN, lo \in LifetimeOpts : T_refresh_ok(t, hasRT, lo)
    \/ \E t \in Threads : T_refresh_raise(t)
    \/ \E t \in Threads : T_return(t)
    \/ \E who \in Writers : W_save_open(who)
    \/ W_tmp_write
    \/ W_replace
    \/ W_chmod
    \/ W_final_write
    \/ W_kill
    \/ \E who \in Writers : W_load(who)
    \/ W_invalidate

Spec == Init /\ [][Next]_vars

(* The main thread of QQQ.py always gets to run, and the timeout of        *)
(* httpd.event.wait(timeout=300) expires when the event stays unset.       *)
(* Requests to a listener and answers of the remote peers are not forced.  *)
Fairness ==
    /\ WF_vars(QQQ_wait_timeout)
    /\ WF_vars(QQQ_wait_signalled)
    /\ WF_vars(QQQ_shutdown)

FairSpec == Spec /\ Fairness

-----------------------------------------------------------------------------
(* Properties *)

ApiAttempts(log) == SelectSeq(log, LAMBDA e : e.kind = "api")

(* The positions of the API attempts in a log *)
ApiPositions(log) == {i \in 1..Len(log) : log[i].kind = "api"}

AtMostTwoAttempts(log, failed) ==
    LET api == ApiAttempts(log)
    IN /\ Len(api) <= 2
       /\ (Len(api) = 2 => api[1].status = 401)
       /\ (Len(api) = 2 /\ api[2].status = 401 => failed)

(* C1: a dispatcher call (saxo_client._request, bot-token-dennik           *)
(* example_api_call) sends the API request at most twice; a second attempt *)
(* happens only after a 401 on the first, and when the second attempt also *)
(* returns 401 the call has failed with the HTTP error and sends nothing   *)
(* more.                                                                   *)
C1_AtMostTwoAttempts ==
    /\ AtMostTwoAttempts(sc_log, sc_pc = "failed" /\ sc_err = "HTTP")
    /\ AtMostTwoAttempts(b_log, b_pc = "failed" /\ b_err = "HTTP")

C1_Witness ==
    /\ Len(ApiAttempts(sc_log)) = 2
    /\ ApiAttempts(sc_log)[1].status = 401
    /\ ApiAttempts(sc_log)[2].status = 401
    /\ sc_pc = "failed"

(* The successful refreshes logged between the first API attempt and the   *)
(* retry, when there is a retry                                            *)
RefreshesBeforeRetry(log) ==
    LET first == CHOOSE i \in ApiPositions(log) : \A j \in ApiPositions(log) : i <= j
        second == CHOOSE i \in ApiPositions(log) \ {first} :
                      \A j \in ApiPositions(log) \ {first} : i <= j
    IN SubSeq(log, first + 1, second - 1)

ExactlyOneRefreshOn401(log) ==
    Len(ApiAttempts(log)) = 2 =>
        /\ Len(RefreshesBeforeRetry(log)) = 1
        /\ ApiAttempts(log)[2].token = RefreshesBeforeRetry(log)[1].token

(* C2: when the first attempt of a dispatcher call returns 401, exactly    *)
(* one successful refresh happens between the first attempt and the retry, *)
(* and the retry carries the access token of that refresh, whatever        *)
(* lifetime the refresh response reports.                                  *)
C2_ExactlyOneRefreshOn401 ==
    /\ ExactlyOneRefreshOn401(sc_log)
    /\ ExactlyOneRefreshOn401(b_log)

(* C4: one invocation of _refresh_token sends at most 3 requests to the    *)
(* token endpoint; it gives up with a transient failure only after exactly *)
(* 3 failed ones, it sleeps for a retry only while fewer than 3 were sent, *)
(* and after a success it sends nothing more.                              *)
C4_ThreeRefreshAttempts ==
    /\ rf_tries <= 3
    /\ (sc_pc = "failed" /\ sc_err = "TransientFailure" => rf_tries = 3)
    /\ (sc_pc = "sleep" => rf_tries < 3)
    /\ (rf_last = 200 => sc_pc \notin {"refresh", "sleep"})

C4_Witness ==
    /\ sc_pc = "failed"
    /\ sc_err = "TransientFailure"
    /\ rf_tries = 3
    /\ rf_last = 500

(* C5: a 4xx from the token endpoint ends _refresh_token at once, on the   *)
(* first attempt or on a retry: the call has failed with the rejection, no *)
(* request follows it and no sleep follows it (the sleeps are those        *)
(* between the earlier attempts).                                          *)
C5_ClientErrorNotRetried ==
    (rf_last # NoStatus /\ 400 <= rf_last /\ rf_last < 500) =>
        /\ sc_pc = "failed"
        /\ sc_err = "AuthRejected"
        /\ Len(rf_sleeps) = rf_tries - 1

C5_Witness ==
    /\ rf_last = 400
    /\ rf_tries = 2
    /\ sc_pc = "failed"

(* What a refresh must leave in the store: a record with a refresh_token,  *)
(* the new one when the response carried one, else the one stored before.  *)
RetainedOrReplaced(old, new, hasRT, n) ==
    /\ new # <<>>
    /\ "refresh_token" \in DOMAIN new[1]
    /\ new[1].refresh_token = IF hasRT THEN n ELSE old[1].refresh_token

(* C3: every successful refresh (proactive or after a 401, in             *)
(* saxo_client, QQQ and bot-token-dennik) whose response omits             *)
(* refresh_token leaves the stored refresh_token as it was, and one whose  *)
(* response includes it stores the new one; the record never loses its     *)
(* refresh_token.                                                          *)
C3_RefreshTokenRetained ==
    [][ /\ \A hasRT \in BOOLEAN, lo \in LifetimeOpts :
              /\ SC_refresh_ok(hasRT, lo)
                    => RetainedOrReplaced(tokenFile, tokenFile', hasRT, issued')
              /\ QQQ_refresh_ok(hasRT, lo)
                    => RetainedOrReplaced(tokenFile, tokenFile', hasRT, issued')
        /\ \A hasRT \in BOOLEAN, lo \in BotLifetimeOpts : \A j \in JwtExps(lo) :
              (Bot_obtain_new_access_ok(hasRT, lo, j) /\ botFile # <<>>
                  /\ "refresh_token" \in DOMAIN botFile[1])
                    => RetainedOrReplaced(botFile, botFile', hasRT, issued')
      ]_vars

(* C6: the code of a callback whose state is not the state of the running  *)
(* authorization attempt (only such callbacks carry the code "evil") is    *)
(* never captured by a listener and never handed to the token exchange.    *)
C6_ForgedStateNeverAccepted ==
    /\ httpd_code # "evil"
    /\ q_code # "evil"
    /\ g_httpd_code # "evil"
    /\ g_code # "evil"

(* C7: while the only request the QQQ listener has handled is a rejected   *)
(* callback (mismatched state or missing code on the redirect path), the   *)
(* response was a client error and completion of the wait has not been     *)
(* signalled.                                                              *)
C7_RejectDoesNotSignal ==
    (q_nReq = 1 /\ q_last.path = "/callback" /\ q_last.status # 200) =>
        /\ q_last.status = 400
        /\ ~httpd_event

(* C8: the wait for the authorization callback always ends, whether or not *)
(* a valid callback arrives.                                               *)
C8_WaitTerminates ==
    /\ [](q_pc = "waiting" => <>(q_pc # "waiting"))
    /\ [](g_pc = "serving" => <>(g_pc # "serving"))

(* C9: once the wait is over and the coordinator proceeds (to the exchange, *)
(* or to the end of the run), the listener neither serves requests nor     *)
(* holds its port.                                                         *)
C9_ListenerTornDown ==
    /\ (q_pc \in {"exchange", "done", "exit1", "crashed"}
            => ~httpd_serving /\ ~httpd_bound)
    /\ (g_pc \in {"exchange", "done", "crashed"} => ~g_bound)

(* sc_now is still the reading of the call's first get_valid_token: no     *)
(* refresh has followed an API attempt                                     *)
InFirstLeg ==
    /\ sc_file0 # <<>>
    /\ sc_tok # EmptyDict
    /\ \A i \in 1..Len(sc_log) : \A j \in 1..Len(sc_log) :
          (sc_log[i].kind = "api" /\ i < j) => sc_log[j].kind = "api"

(* C10: when the stored record's expiry is more than 30 s after the time   *)
(* get_valid_token reads, a saxo_client dispatcher call sends nothing to   *)
(* the token endpoint before its first API attempt, and the stored record  *)
(* stays as it was; QQQ.get_valid_token likewise returns the record        *)
(* without a refresh.                                                      *)
C10_NoRefreshWhenFresh ==
    /\ (InFirstLeg /\ sc_now < sc_file0[1].exp - 30) =>
            /\ (sc_log = <<>> \/ sc_log[1].kind = "api")
            /\ (ApiAttempts(sc_log) = <<>> => sc_nTok = 0)
            /\ tokenFile = sc_file0
    /\ (q_tok # EmptyDict /\ q_now < DictGet(q_tok, "exp", 0) - 30) =>
            /\ q_pc = "done"
            /\ tokenFile = <<q_tok>>

C10_Witness ==
    /\ InFirstLeg
    /\ sc_now < sc_file0[1].exp - 30
    /\ Len(sc_log) = 1
    /\ sc_log[1].kind = "api"
    /\ sc_nTok = 0
    /\ tokenFile = sc_file0

(* C11: when the stored record's expiry is within 30 s of the time         *)
(* get_valid_token reads (or already past), exactly one successful refresh *)
(* precedes the first API attempt of a saxo_client dispatcher call, that   *)
(* attempt carries the access token of that refresh and not the stored     *)
(* one, and no attempt is made when the refresh fails.                     *)
C11_RefreshBeforeFirstAttempt ==
    (InFirstLeg /\ sc_now >= sc_file0[1].exp - 30) =>
        /\ (sc_log # <<>> =>
              /\ sc_log[1].kind = "refresh"
              /\ sc_log[1].caller = "get_valid_token"
              /\ sc_log[1].token # sc_file0[1].access_token
              /\ sc_token_obj # EmptyDict
              /\ sc_token_obj.access_token = sc_log[1].token)
        /\ (Len(sc_log) >= 2 =>
              /\ sc_log[2].kind = "api"
              /\ sc_log[2].token = sc_log[1].token)
        /\ (sc_log = <<>> => sc_pc \in {"refresh", "sleep", "failed"})

C11_Witness ==
    /\ InFirstLeg
    /\ sc_now >= sc_file0[1].exp - 30
    /\ Len(sc_log) = 2
    /\ sc_log[1].kind = "refresh"
    /\ sc_log[2].kind = "api"
    /\ sc_log[2].status = 200
    /\ sc_pc = "done"

C13_RefreshesSerialized ==
    /\ Cardinality({t \in Threads : t_pc[t] = "refresh"}) <= 1
    /\ \A t \in Threads :
          t_pc[t] = "refresh" =>
              /\ tokenFile # <<>>
              /\ t_tok[t].refresh_token = tokenFile[1].refresh_token

(* C14: at every point of a save, and after a kill at any step of it, the  *)
(* file at TOKEN_FILE is absent or holds the complete text of a record,    *)
(* never an empty or truncated one (saxo_client._save_token,               *)
(* QQQ.save_token, bot-token-dennik save_token).                           *)
C14_SaveAtomic ==
    w_final # <<>> => w_final[1].data # 0

(* C15: whenever the file at TOKEN_FILE exists, during a save and after a  *)
(* kill inside one included, its mode lets only the owner read it.         *)
C15_OwnerOnly ==
    w_final # <<>> => w_final[1].mode = "0600"

(* C16: a load that finds a malformed token file returns what the same     *)
(* load returns for a missing file, and raises nothing (_load_token of     *)
(* saxo_client, load_token of QQQ and of bot-token-dennik).                *)
C16_MalformedIsAbsent ==
    (w_last.op = "load" /\ w_last.saw # <<>> /\ w_last.saw[1].data = 0) =>
        w_last.result = W_load_token(w_last.who, <<>>)

(* C17: invalidate_token leaves the store empty, so that load_token        *)
(* returns what it returns for a missing file; on an empty store it does   *)
(* nothing and raises nothing; applying it twice gives what applying it    *)
(* once gives.                                                             *)
C17_InvalidateIdempotent ==
    [][ /\ W_invalidate =>
              /\ w_final' = <<>>
              /\ W_load_token("bot", w_final') = W_load_token("bot", <<>>)
              /\ Bot_invalidate_token(w_final') = w_final'
              /\ (w_final = <<>> => w_final' = w_final)
        /\ (b_pc = "send" /\ b_pc' = "get_valid_token") =>
              /\ botFile' = <<>>
              /\ Bot_invalidate_token(botFile') = botFile'
      ]_vars

C17_Witness ==
    /\ w_last.op = "invalidate"
    /\ w_last.saw = <<>>
    /\ w_new >= 1
    /\ w_final = <<>>

(* C18: every write of a token record stores the access token of the       *)
(* response just received together with the expiry computed from that      *)
(* same response (the time it arrived plus its expires_in); nothing else   *)
(* changes the stored record, so no state pairs the access token of one    *)
(* response with the expiry of another.                                    *)
C18_ExpiryMatchesToken ==
    [][ /\ tokenFile' # tokenFile =>
              /\ issued' = issued + 1
              /\ tokenFile' # <<>>
              /\ tokenFile'[1].access_token = issued'
              /\ tokenFile'[1].exp = clock + DictGet(tokenFile'[1], "expires_in", 0)
        /\ (botFile' # botFile /\ botFile' # <<>>) =>
              /\ issued' = issued + 1
              /\ botFile'[1].access_token.id = issued'
              /\ IF "expires_in" \in DOMAIN botFile'[1]
                 THEN botFile'[1].expiry_ts = clock + botFile'[1].expires_in
                 ELSE "expiry_ts" \notin DOMAIN botFile'[1]
      ]_vars

C18_Witness ==
    /\ Len(sc_log) = 3
    /\ sc_log[1].kind = "refresh"
    /\ sc_log[3].kind = "refresh"
    /\ sc_log[3].caller = "_request"
    /\ tokenFile[1].access_token = sc_log[3].token
    /\ tokenFile[1].exp = clock + 45
    /\ clock > 0

(* C19: once a token store holds a record it holds exactly one in every    *)
(* later state: no step of a dispatcher call, refresh, 401 response or     *)
(* refresh failure leaves it without a record.                             *)
C19_RecordNeverRemoved ==
    [][ /\ tokenFile # <<>> => Len(tokenFile') = 1
        /\ botFile # <<>> => Len(botFile') = 1
      ]_vars

(* The order of a QQQ.main run that goes through the authorization flow:   *)
(* wait, shutdown, then either failure or exchange, then done or failure   *)
CoordinatorOrder ==
    { <<"waiting", "shutdown">>, <<"shutdown", "exit1">>, <<"shutdown", "exchange">>,
      <<"exchange", "done">>, <<"exchange", "crashed">> }

(* C20: a QQQ.main run without a token file goes from the wait to the      *)
(* shutdown, then to the exchange, then to done, failure being the only    *)
(* other way out of each; the exchange request is sent only with a code    *)
(* captured from an accepted callback; the token file is written only by   *)
(* the step in which the exchange succeeds; and when the wait has failed   *)
(* (timeout, or no code held after a rejected callback) the run ends in    *)
(* failure with no exchange request and no write.                          *)
C20_CoordinatorOrder ==
    /\ [][ /\ (q_pc \in {"waiting", "shutdown", "exchange"} /\ q_pc' # q_pc) =>
                  <<q_pc, q_pc'>> \in CoordinatorOrder
           /\ (q_pc' \in {"shutdown", "exchange"} /\ q_pc' # q_pc) =>
                  <<q_pc, q_pc'>> \in CoordinatorOrder
           /\ (prog = "ibkr" /\ tokenFile = <<>> /\ tokenFile' # <<>>) =>
                  (q_pc = "exchange" /\ q_pc' = "done")
         ]_vars
    /\ [](q_pc = "exchange" =>
              /\ q_waited
              /\ q_code = "genuine"
              /\ httpd_code = q_code)
    /\ [](q_pc \in {"waiting", "shutdown", "exchange", "exit1"} => tokenFile = <<>>)
    /\ [](q_pc = "exit1" =>
              /\ q_code = NoParam
              /\ QQQ_wait_failed(q_waited, httpd_code))
    /\ []((q_pc = "crashed" /\ q_code # NoParam) => tokenFile = <<>>)

C20_Witness ==
    /\ q_pc = "exit1"
    /\ q_waited
    /\ q_last.status = 400
    /\ httpd_code = NoParam
    /\ tokenFile = <<>>

(* C21: a run sends at most one exchange request for the code it captured; *)
(* when that request fails the run has ended in failure, and the token     *)
(* store (the token file of QQQ.py, the token keys of .env of              *)
(* get_saxo_token.py) is changed by no step other than the one in which    *)
(* an exchange succeeds.                                                   *)
C21_ExchangeOnce ==
    /\ [](q_nExch <= 1 /\ g_nExch <= 1)
    /\ []((q_nExch = 1 /\ q_pc # "done") => (q_pc = "crashed" /\ tokenFile = <<>>))
    /\ []((g_nExch = 1 /\ g_pc # "done") => g_pc = "crashed")
    /\ [][ /\ (q_pc = "exchange" /\ q_nExch' # q_nExch /\ tokenFile' = tokenFile)
                 => q_pc' = "crashed"
           /\ g_env' # g_env => (g_pc = "exchange" /\ g_pc' = "done")
           /\ (g_pc = "exchange" /\ g_pc' = "crashed") => g_env' = g_env
         ]_vars

C21_Witness ==
    /\ q_pc = "crashed"
    /\ q_nExch = 1
    /\ q_code = "genuine"
    /\ tokenFile = <<>>

(* The statuses of an API response that are neither success nor 401 *)
OtherErrors == ApiStatuses \ {200, 401}

(* C22: an API attempt of saxo_client._request answered with an error      *)
(* status other than 401 is the last thing the call does: the call has     *)
(* failed with that HTTP error, no API request and no request to the token *)
(* endpoint follows, and the stored record is as it was at that attempt.   *)
C22_OtherErrorsSurface ==
    /\ [](\A i \in 1..Len(sc_log) :
              (sc_log[i].kind = "api" /\ sc_log[i].status \in OtherErrors) =>
                  /\ i = Len(sc_log)
                  /\ sc_pc = "failed"
                  /\ sc_err = "HTTP")
    /\ [][ \A st \in OtherErrors :
              SC_urlopen(st) =>
                  /\ sc_pc' = "failed"
                  /\ tokenFile' = tokenFile
                  /\ sc_nTok' = sc_nTok
                  /\ rf_tries' = rf_tries
         ]_vars

C22_Witness ==
    /\ Len(sc_log) = 1
    /\ sc_log[1].kind = "api"
    /\ sc_log[1].status = 403
    /\ sc_pc = "failed"
    /\ sc_nTok = 0
    /\ tokenFile = sc_file0

(* C23: a saxo_client dispatcher call that finds the stored token expired, *)
(* refreshes it and gets a success from the API ends successfully with the *)
(* refreshed record persisted: the stored access token is the one of the   *)
(* refresh response and the stored expiry is the time that response        *)
(* arrived plus its lifetime; and a later call that reads a record whose   *)
(* expiry is beyond the safety margin sends its first attempt with the     *)
(* stored access token, without a refresh.                                 *)
C23_RefreshedRecordPersisted ==
    /\ (InFirstLeg /\ sc_now >= sc_file0[1].exp /\ sc_pc = "done") =>
            /\ Len(sc_log) = 2
            /\ sc_log[1].kind = "refresh"
            /\ sc_log[2].status = 200
            /\ tokenFile = <<sc_token_obj>>
            /\ tokenFile[1].access_token = sc_log[1].token
            /\ tokenFile[1].access_token # sc_file0[1].access_token
            /\ tokenFile[1].exp - DictGet(tokenFile[1], "expires_in", 0) \in sc_now..clock
    /\ (InFirstLeg /\ sc_now < sc_file0[1].exp - 30) =>
            IF sc_log = <<>>
            THEN sc_nTok = 0 /\ sc_pc = "urlopen"
            ELSE sc_log[1].kind = "api" /\ sc_log[1].token = sc_file0[1].access_token

C23_Witness ==
    /\ InFirstLeg
    /\ sc_now > sc_file0[1].exp
    /\ sc_pc = "done"
    /\ Len(sc_log) = 2
    /\ tokenFile[1].access_token = sc_log[1].token
    /\ tokenFile[1].exp = clock + 45

(* The lifetime a stored record reports, 0 when it reports none *)
LifetimeOf(rec) == DictGet(rec, "expires_in", 0)

(* C24: every write of a token record, after a code exchange or a refresh, *)
(* stores an expiry equal to the clock reading at that step plus the       *)
(* lifetime the response reports, and equal to that clock reading when the *)
(* response reports none (saxo_client, QQQ, bot-token-dennik).             *)
C24_ExpiryIsNowPlusLifetime ==
    [][ /\ tokenFile' # tokenFile =>
              /\ "exp" \in DOMAIN tokenFile'[1]
              /\ tokenFile'[1].exp = clock + LifetimeOf(tokenFile'[1])
        /\ (botFile' # botFile /\ botFile' # <<>>) =>
              /\ "expiry_ts" \in DOMAIN botFile'[1]
              /\ botFile'[1].expiry_ts = clock + LifetimeOf(botFile'[1])
      ]_vars

(* C24, amended: saxo_client and QQQ store expiry = clock reading plus the *)
(* reported lifetime, which is the clock reading itself when the response  *)
(* reports none; bot-token-dennik stores expiry_ts = clock reading plus    *)
(* lifetime only when the response reports a lifetime and stores no        *)
(* expiry_ts otherwise.  In all three a record without a lifetime is never *)
(* returned as fresh: the next get_valid_token asks for a new token.       *)
C24_ExpiryAmended ==
    /\ [][ /\ tokenFile' # tokenFile =>
                 /\ "exp" \in DOMAIN tokenFile'[1]
                 /\ tokenFile'[1].exp = clock + LifetimeOf(tokenFile'[1])
           /\ (botFile' # botFile /\ botFile' # <<>>) =>
                 IF "expires_in" \in DOMAIN botFile'[1]
                 THEN /\ "expiry_ts" \in DOMAIN botFile'[1]
                      /\ botFile'[1].expiry_ts = clock + botFile'[1].expires_in
                 ELSE "expiry_ts" \notin DOMAIN botFile'[1]
         ]_vars
    /\ []((tokenFile # <<>> /\ "expires_in" \notin DOMAIN tokenFile[1]) =>
              ~SC_still_valid(clock, tokenFile[1]))
    /\ []((botFile # <<>> /\ "expires_in" \notin DOMAIN botFile[1]) =>
              \/ ~token_is_valid(botFile[1], clock)
              \/ DictGet(botFile[1], "expiry_ts", 0) - clock < BotMargin)

C24_Witness ==
    /\ tokenFile # <<>>
    /\ "expires_in" \notin DOMAIN tokenFile[1]
    /\ tokenFile[1].exp = clock
    /\ clock > 0
    /\ sc_pc = "urlopen"
    /\ sc_token_obj = tokenFile[1]

(* C25: the sleeps of one _refresh_token invocation are 1 s before the     *)
(* second attempt and 2 s before the third (backoff * 2^(k-1) before retry *)
(* k); there is none before the first attempt, none after the last one,    *)
(* and none after a 4xx response or a success.                             *)
C25_BackoffSchedule ==
    /\ \A k \in 1..Len(rf_sleeps) : rf_sleeps[k] = Backoff * Pow2(k - 1)
    /\ rf_sleeps \in {<<>>, <<1>>, <<1, 2>>}
    /\ (rf_tries = 0 => rf_sleeps = <<>>)
    /\ (sc_pc = "refresh" => Len(rf_sleeps) = rf_tries)
    /\ (rf_tries > 0 /\ sc_pc # "refresh" => Len(rf_sleeps) = rf_tries - 1)
    /\ (sc_pc = "sleep" => rf_last \in {500, NetError} /\ rf_tries < Retries + 1)

C25_Witness ==
    /\ rf_sleeps = <<1, 2>>
    /\ rf_tries = 3
    /\ rf_last = 200

(* C26: the API request retried after a 401 targets the same URL, with the *)
(* same query string (each parameter once), as the first attempt of the    *)
(* call, with or without params; only the bearer token differs.            *)
C26_RetrySameRequest ==
    \A i, j \in 1..Len(sc_log) :
        sc_log[i].kind = "api" /\ sc_log[j].kind = "api"
            => /\ sc_log[i].url = sc_log[j].url
               /\ sc_log[i].url = (IF sc_params THEN 1 ELSE 0)

Bot_rotations == SelectSeq(b_log, LAMBDA e : e.kind = "refresh" /\ e.rt # ConfigRT)

(* C27: every refresh request sends the refresh token of the record most   *)
(* recently persisted: the one in the store when there is one, and, once a *)
(* refresh of the running call has rotated the refresh token, the rotated  *)
(* one, also after a 401 has invalidated the store; never the configured   *)
(* token instead of a newer stored one.                                    *)
C27_BestKnownRefreshToken ==
    /\ (b_pc = "refresh" /\ "refresh_token" \in DOMAIN Bot_load_token
            => b_rtSent = Bot_load_token.refresh_token)
    /\ (b_pc = "refresh" /\ Bot_rotations # <<>>
            => b_rtSent = Bot_rotations[Len(Bot_rotations)].rt)
    /\ (sc_pc \in {"refresh", "sleep"} /\ tokenFile # <<>>
            => rf_tok = DictGet(tokenFile[1], "refresh_token", rf_tok))

(* The successful refreshes of the running saxo_client dispatcher call *)
SC_refreshed == SelectSeq(sc_log, LAMBDA e : e.kind = "refresh")

(* C28 as stated: a saxo_client dispatcher call that ends on a failed      *)
(* refresh (4xx rejection, or 5xx/network failure after all attempts)      *)
(* leaves the stored record exactly as it was before the call.             *)
C28_FailedRefreshKeepsStore ==
    (sc_pc = "failed" /\ sc_err \in {"AuthRejected", "TransientFailure"})
        => tokenFile = sc_file0

(* C28: a failed refresh writes nothing: throughout a saxo_client          *)
(* dispatcher call the stored record is the one from before the call as    *)
(* long as no refresh of the call has succeeded, and otherwise the record  *)
(* of the call's last successful refresh; failed attempts, rejections and  *)
(* the errors they raise leave it in place.                                *)
C28_FailedRefreshAmended ==
    sc_pc # "idle" =>
        IF SC_refreshed = <<>>
        THEN tokenFile = sc_file0
        ELSE /\ tokenFile # <<>>
             /\ tokenFile[1].access_token = SC_refreshed[Len(SC_refreshed)].token

C28_Witness ==
    /\ sc_pc = "failed"
    /\ sc_err = "TransientFailure"
    /\ rf_caller = "_request"
    /\ rf_tries = Retries + 1
    /\ SC_refreshed = <<>>
    /\ sc_file0 # <<>>
    /\ tokenFile = sc_file0

(* C29: once a valid callback has set the code and the event of the QQQ.py *)
(* listener, no step taken before httpd.shutdown() has returned changes    *)
(* the code the main thread reads: main exchanges exactly that code and    *)
(* does not exit with failure.                                             *)
C29_CodeFixedBySignal ==
    [][(/\ q_pc \in {"waiting", "shutdown"}
        /\ httpd_event
        /\ httpd_code # NoParam)
            => /\ httpd_code' = httpd_code
               /\ q_pc' # "exit1"
               /\ (q_pc' = "exchange" => q_code' = httpd_code)]_vars

====
